---- MODULE Spec2Model ----
(***************************************************************************)
(* Model of the cloudinary command line tool (cmd/ls.go, which holds the   *)
(* root command too, and cmd/rm.go): flags, configuration (LoadConfig,     *)
(* handleEnvVars, replaceEnvVars, handleQuery), public-id composition      *)
(* (composePublicID) and the ls and rm commands.                           *)
(*                                                                         *)
(* A Go string is a sequence of one-character strings: "o/" is             *)
(* <<"o", "/">> and the empty string is <<>>.                              *)
(***************************************************************************)
EXTENDS Integers, Sequences, FiniteSets, TLC

VARIABLES
    pc,           \* position of the process: start, parsed, ready, done, exit
    argv,         \* the command line: [cmd, path, image, raw, simulate, verbose]
    viper,        \* the configuration source: [uri, prepend, prodtag, keepfiles, dburi]
    env,          \* the process environment: variable name -> value
    optPath,      \* package variable optPath   (-p)
    optImg,       \* package variable optImg    (-i)
    optRaw,       \* package variable optRaw    (-r)
    optSimulate,  \* package variable optSimulate
    optVerbose,   \* package variable optVerbose
    flagSimulate, \* storage of the --simulate flag (the *bool BoolP returned)
    flagVerbose,  \* storage of the --verbose flag  (the *bool BoolP returned)
    settings,     \* package variable settings (*Config)
    calls,        \* invocations of the collaborators, in order
    stderr,       \* the last message written to standard error
    exitCode,     \* the exit code, -1 while the process runs
    publicID,     \* the public id printed by printPublicID
    call,         \* a pure function applied on its own: its name and arguments
    ret           \* and what it returned

vars == <<pc, argv, viper, env, optPath, optImg, optRaw, optSimulate, optVerbose,
          flagSimulate, flagVerbose, settings, calls, stderr, exitCode, publicID,
          call, ret>>

(***************************************************************************)
(* Bounds of the inputs.                                                   *)
(***************************************************************************)
MaxPathLen == 3
MaxIdLen == 3
MaxPieces == 2
MaxQueryPieces == 2

RECURSIVE SeqsUpTo(_, _)
SeqsUpTo(S, n) ==
    IF n = 0 THEN {<<>>}
    ELSE LET shorter == SeqsUpTo(S, n - 1)
         IN  shorter \cup {Append(s, c) : s \in shorter, c \in S}

RECURSIVE Concat(_)
Concat(ss) == IF ss = <<>> THEN <<>> ELSE Head(ss) \o Concat(Tail(ss))

(***************************************************************************)
(* package strings                                                         *)
(***************************************************************************)
HasPrefix(s, prefix) ==
    Len(s) >= Len(prefix) /\ SubSeq(s, 1, Len(prefix)) = prefix

HasSuffix(s, suffix) ==
    Len(s) >= Len(suffix) /\ SubSeq(s, Len(s) - Len(suffix) + 1, Len(s)) = suffix

\* strings.Replace(s, old, new, -1) for a non-empty old: every non-overlapping
\* occurrence, leftmost first.
RECURSIVE Replace(_, _, _)
Replace(s, old, new) ==
    IF Len(s) < Len(old) THEN s
    ELSE IF HasPrefix(s, old)
         THEN new \o Replace(SubSeq(s, Len(old) + 1, Len(s)), old, new)
         ELSE <<Head(s)>> \o Replace(Tail(s), old, new)

(***************************************************************************)
(* regexp `\${([A-Z_]+)}` and os.Getenv                                    *)
(***************************************************************************)
\* The characters of the class [A-Z_] that the inputs are drawn from.
UpperSnake == {"A", "B", "V", "W", "_"}

\* The length of the run of [A-Z_] characters of s that starts at i.
RECURSIVE RunLen(_, _)
RunLen(s, i) ==
    IF i <= Len(s) /\ s[i] \in UpperSnake THEN 1 + RunLen(s, i + 1) ELSE 0

\* The length of the match of the pattern that starts at i; 0 if there is none.
MatchLenAt(s, i) ==
    IF i + 3 <= Len(s) /\ s[i] = "$" /\ s[i + 1] = "{"
    THEN LET k == RunLen(s, i + 2)
         IN  IF k >= 1 /\ i + 2 + k <= Len(s) /\ s[i + 2 + k] = "}" THEN k + 3 ELSE 0
    ELSE 0

\* r.FindAllString(src, -1): the non-overlapping matches, leftmost first.
RECURSIVE FindAllFrom(_, _)
FindAllFrom(s, i) ==
    IF i > Len(s) THEN <<>>
    ELSE LET n == MatchLenAt(s, i)
         IN  IF n > 0 THEN <<SubSeq(s, i, i + n - 1)>> \o FindAllFrom(s, i + n)
             ELSE FindAllFrom(s, i + 1)

FindAllString(s) == FindAllFrom(s, 1)

\* os.Getenv(name) in environment e: the empty string when name is not set.
Getenv(e, name) == IF name \in DOMAIN e THEN e[name] ELSE <<>>

\* The result of a function returning (string, error).
StrOk(v) == [err |-> FALSE, val |-> v, name |-> <<>>]
StrErr(n) == [err |-> TRUE, val |-> <<>>, name |-> n]

\* The loop of replaceEnvVars over the matches envs[k..].
RECURSIVE replaceLoop(_, _, _, _)
replaceLoop(src, envs, k, e) ==
    IF k > Len(envs) THEN StrOk(src)
    ELSE LET varname == envs[k]
             evar == Getenv(e, SubSeq(varname, 3, Len(varname) - 1))
         IN  IF evar = <<>> THEN StrErr(varname)
             ELSE replaceLoop(Replace(src, varname, evar), envs, k + 1, e)

replaceEnvVars(src, e) == replaceLoop(src, FindAllString(src), 1, e)

(***************************************************************************)
(* ensureTrailingSlash and cloudinary.EnsureTrailingSlash                  *)
(***************************************************************************)
ensureTrailingSlash(dirname) ==
    IF ~HasSuffix(dirname, <<"/">>) THEN dirname \o <<"/">> ELSE dirname

\* The library's function, as the specification states it: empty for the
\* empty path, and no separator is appended to a path that ends with one.
EnsureTrailingSlash(dirname) ==
    IF dirname = <<>> THEN <<>>
    ELSE IF HasSuffix(dirname, <<"/">>) THEN dirname
    ELSE dirname \o <<"/">>

(***************************************************************************)
(* package net/url: QueryUnescape, Parse and URL.String, for the URIs the  *)
(* inputs are drawn from (no fragment, no space or placeholder outside the *)
(* query).                                                                 *)
(***************************************************************************)
HexDigits == {"0", "1", "2", "3", "4", "5", "6", "7", "8", "9",
              "a", "b", "c", "d", "e", "f", "A", "B", "C", "D", "E", "F"}

\* The character a %XX escape stands for. The escapes of the inputs are the
\* ones listed; any other stands for a character of no interest, "?".
Unhex(h1, h2) ==
    CASE <<h1, h2>> = <<"2", "4">> -> "$"
      [] <<h1, h2>> \in {<<"7", "B">>, <<"7", "b">>} -> "{"
      [] <<h1, h2>> \in {<<"7", "D">>, <<"7", "d">>} -> "}"
      [] <<h1, h2>> = <<"2", "5">> -> "%"
      [] <<h1, h2>> \in {<<"2", "B">>, <<"2", "b">>} -> "+"
      [] <<h1, h2>> \in {<<"0", "A">>, <<"0", "a">>} -> "\n"
      [] OTHER -> "?"

\* Every % of s is followed by two hexadecimal digits.
ValidEscapes(s) ==
    \A i \in 1..Len(s) :
        s[i] = "%" => (i + 2 <= Len(s) /\ s[i + 1] \in HexDigits /\ s[i + 2] \in HexDigits)

\* The decoding pass of unescape in query-component mode over valid escapes.
RECURSIVE unescape(_)
unescape(s) ==
    IF s = <<>> THEN <<>>
    ELSE IF Head(s) = "%"
         THEN <<Unhex(s[2], s[3])>> \o unescape(SubSeq(s, 4, Len(s)))
         ELSE IF Head(s) = "+" THEN <<" ">> \o unescape(Tail(s))
         ELSE <<Head(s)>> \o unescape(Tail(s))

\* url.QueryUnescape(s): an EscapeError for a % not followed by two hex digits.
QueryUnescape(s) == IF ValidEscapes(s) THEN StrOk(unescape(s)) ELSE StrErr(<<>>)

\* ASCII control characters (stringContainsCTLByte).
CTL == {"\n", "\t"}

\* A *url.URL: the text before the query, and the query.
NilURL == [nil |-> TRUE, Base |-> <<>>, ForceQuery |-> FALSE, RawQuery |-> <<>>]
URLErr == [err |-> TRUE, url |-> NilURL]
URLOk(u) == [err |-> FALSE, url |-> u]

\* The index of the first c in s, 0 if there is none.
IndexOf(s, c) ==
    IF \E i \in 1..Len(s) : s[i] = c
    THEN CHOOSE i \in 1..Len(s) : s[i] = c /\ \A j \in 1..(i - 1) : s[j] # c
    ELSE 0

\* url.Parse(rawURL).
Parse(rawURL) ==
    IF \E i \in 1..Len(rawURL) : rawURL[i] \in CTL THEN URLErr  \* invalid control character
    ELSE IF HasPrefix(rawURL, <<":">>) THEN URLErr              \* missing protocol scheme
    ELSE LET q == IndexOf(rawURL, "?")
             base == IF q = 0 THEN rawURL ELSE SubSeq(rawURL, 1, q - 1)
             query == IF q = 0 THEN <<>> ELSE SubSeq(rawURL, q + 1, Len(rawURL))
         IN  IF ~ValidEscapes(base) THEN URLErr                 \* invalid URL escape
             ELSE URLOk([nil |-> FALSE, Base |-> base,
                         ForceQuery |-> (q # 0 /\ query = <<>>), RawQuery |-> query])

\* (*URL).String()
URLString(u) ==
    u.Base \o (IF u.ForceQuery \/ u.RawQuery # <<>> THEN <<"?">> \o u.RawQuery ELSE <<>>)

(***************************************************************************)
(* handleQuery                                                             *)
(***************************************************************************)
\* A handleQuery that substitutes before it decodes.
handleQuerySubstFirst(uri, e) ==
    LET r == replaceEnvVars(URLString(uri), e)
    IN  IF r.err THEN URLErr
        ELSE LET qs == QueryUnescape(r.val)
             IN  IF qs.err THEN URLErr ELSE Parse(qs.val)

handleQuery(uri, e) ==
    LET qs == QueryUnescape(URLString(uri))
    IN  IF qs.err THEN URLErr
        ELSE LET r == replaceEnvVars(qs.val, e)
             IN  IF r.err THEN URLErr ELSE Parse(r.val)

(***************************************************************************)
(* composePublicID                                                         *)
(***************************************************************************)
\* filepath.Ext: the suffix of the final path segment that starts at its
\* final dot, empty if it has none.
RECURSIVE Ext(_)
Ext(path) ==
    IF path = <<>> \/ path[Len(path)] = "/" THEN <<>>
    ELSE IF path[Len(path)] = "." THEN <<".">>
    ELSE LET e == Ext(SubSeq(path, 1, Len(path) - 1))
         IN  IF e = <<>> THEN <<>> ELSE Append(e, path[Len(path)])

\* cloudinary.CleanExtensionNameWithPrepend, as the specification states the
\* Image rule: the extension of the final path segment is removed, then the
\* prepend path is put in front.
CleanExtensionNameWithPrepend(name, prepend) ==
    prepend \o SubSeq(name, 1, Len(name) - Len(Ext(name)))

\* The prepend path composePublicID and rmCmd.Run compute.
effectivePrepend(oPath, prependPath) ==
    IF oPath # <<>> THEN ensureTrailingSlash(oPath)
    ELSE IF prependPath # <<>> THEN ensureTrailingSlash(prependPath)
    ELSE <<>>

\* A composePublicID whose configured default wins over the -p override.
composePublicIDDefaultFirst(opt, oPath, oRaw, prependPath) ==
    LET prepend == effectivePrepend(prependPath, oPath)
    IN  IF oRaw # <<>> THEN prepend \o opt
        ELSE CleanExtensionNameWithPrepend(opt, prepend)

\* A composePublicID that forgets the prepend path of a raw resource.
composePublicIDRawBare(opt, oPath, oRaw, prependPath) ==
    LET prepend == effectivePrepend(oPath, prependPath)
    IN  IF oRaw # <<>> THEN opt
        ELSE CleanExtensionNameWithPrepend(opt, prepend)

\* A composePublicID that never takes the raw branch.
composePublicIDImageFirst(opt, oPath, oRaw, prependPath) ==
    CleanExtensionNameWithPrepend(opt, effectivePrepend(oPath, prependPath))

\* composePublicID(opt) with the package variables it reads: optPath, optRaw
\* and settings.PrependPath.
composePublicID(opt, oPath, oRaw, prependPath) ==
    LET prepend == effectivePrepend(oPath, prependPath)
    IN  IF oRaw # <<>> THEN prepend \o opt
        ELSE CleanExtensionNameWithPrepend(opt, prepend)

(***************************************************************************)
(* Config, LoadConfig and handleEnvVars                                    *)
(***************************************************************************)
\* var settings = &Config{}
Settings0 ==
    [CloudinaryURI |-> NilURL, MongoURI |-> NilURL, KeepFilesPattern |-> <<>>,
     PrependPath |-> <<>>, ProdTag |-> <<>>]

\* The result of handleEnvVars: the error, and the Config as the call leaves it.
EnvErr(c) == [err |-> TRUE, c |-> c]
EnvOk(c) == [err |-> FALSE, c |-> c]

\* handleEnvVars, [database]: muri is what handleQuery(c.MongoURI) returned.
envDatabaseSet(c, muri) ==
    IF muri.err THEN EnvErr(c) ELSE EnvOk([c EXCEPT !.MongoURI = muri.url])

envDatabase(c, e) ==
    IF ~c.MongoURI.nil THEN envDatabaseSet(c, handleQuery(c.MongoURI, e)) ELSE EnvOk(c)

\* A tag fallback that always appends a separator to the substituted tag.
envProdTagSetAppend(c, e, ptag) ==
    IF ptag.err THEN EnvErr(c)
    ELSE envDatabase([c EXCEPT !.PrependPath = ptag.val \o <<"/">>], e)

\* handleEnvVars, [global]: ptag is what replaceEnvVars(c.ProdTag) returned.
envProdTagSet(c, e, ptag) ==
    IF ptag.err THEN EnvErr(c)
    ELSE envDatabase([c EXCEPT !.PrependPath = EnsureTrailingSlash(ptag.val)], e)

envProdTag(c, e) ==
    IF Len(c.PrependPath) = 0 /\ Len(c.ProdTag) > 0
    THEN envProdTagSet(c, e, replaceEnvVars(c.ProdTag, e))
    ELSE envDatabase(c, e)

\* handleEnvVars, [cloudinary]: curi is what handleQuery(c.CloudinaryURI) returned.
envCloudinarySet(c, e, curi) ==
    IF curi.err THEN EnvErr(c) ELSE envProdTag([c EXCEPT !.CloudinaryURI = curi.url], e)

\* (c *Config) handleEnvVars() in environment e.
handleEnvVars(c, e) ==
    IF ~c.CloudinaryURI.nil THEN envCloudinarySet(c, e, handleQuery(c.CloudinaryURI, e))
    ELSE envProdTag(c, e)

\* The result of LoadConfig: the error, its message, and the package variable
\* settings as the call leaves it (the *Config returned when there is no error).
LoadErr(msg, s) == [err |-> TRUE, msg |-> msg, settings |-> s]
LoadOk(s) == [err |-> FALSE, msg |-> "", settings |-> s]

\* LoadConfig, the end: h is what settings.handleEnvVars() returned.
loadEnvVars(h) == IF h.err THEN LoadErr("handleEnvVars", h.c) ELSE LoadOk(h.c)

\* LoadConfig, the mongodb section: mURI is what url.Parse(database.uri) returned.
loadDatabaseSet(e, s, mURI) ==
    IF mURI.err THEN LoadErr("mongoDB URI", s)
    ELSE loadEnvVars(handleEnvVars([s EXCEPT !.MongoURI = mURI.url], e))

loadDatabase(v, e, s) ==
    IF v.dburi # <<>> THEN loadDatabaseSet(e, s, Parse(v.dburi))
    ELSE loadEnvVars(handleEnvVars(s, e))

\* LoadConfig, the prepend path, the production tag and the keep-files pattern.
loadPrepend(v, e, s) ==
    loadDatabase(v, e,
        [s EXCEPT !.PrependPath = EnsureTrailingSlash(v.prepend),
                  !.ProdTag = v.prodtag,
                  !.KeepFilesPattern = IF v.keepfiles # <<>> THEN v.keepfiles ELSE @])

\* LoadConfig, the Cloudinary settings: cURI is what url.Parse(uri) returned.
\* The err tested after viper.GetString is the nil it was declared with.
loadURI(v, e, s, cURI) ==
    IF cURI.err THEN LoadErr("cloudinary URI", s)
    ELSE loadPrepend(v, e, [s EXCEPT !.CloudinaryURI = cURI.url])

\* LoadConfig() reading configuration v in environment e, with the package
\* variable settings at s.
LoadConfig(v, e, s) == loadURI(v, e, s, Parse(v.uri))

(***************************************************************************)
(* The inputs of a run: command line, configuration and environment.       *)
(***************************************************************************)
PathArgs == {<<>>, <<"o">>, <<"o", "/">>}
ImageArgs == {<<>>, <<"p", ".", "j">>, <<"p">>}
RawArgs == {<<>>, <<"r", ".", "t">>}

Argvs ==
    [cmd : {"ls", "rm"}, path : PathArgs, image : ImageArgs, raw : RawArgs,
     simulate : BOOLEAN, verbose : BOOLEAN]

\* "${V}" and its percent-encoded form "%24%7BV%7D"
PlaceholderV == <<"$", "{", "V", "}">>
EncodedV == <<"%", "2", "4", "%", "7", "B", "V", "%", "7", "D">>

ServiceURIs ==
    {<<>>,                                                       \* absent
     <<"c", ":", "/", "/", "h">>,                                \* cloudinary://host
     <<":", "h">>,                                               \* malformed
     <<"c", ":", "/", "/", "h", "?", "k", "=">> \o EncodedV}     \* encoded placeholder
DatabaseURIs == {<<>>, <<"m", ":", "/", "/", "d">>, <<"m", ":", "/", "/", "%", "z">>}
PrependPaths == {<<>>, <<"d">>}
ProdTags == {<<>>, <<"t">>, PlaceholderV, PlaceholderV \o <<"/">>}

Configs ==
    [uri : ServiceURIs, prepend : PrependPaths, prodtag : ProdTags,
     keepfiles : {<<>>, <<"k">>}, dburi : DatabaseURIs]

EnvNames == {<<"A">>, <<"B">>, <<"V">>, <<"W">>}
Unset == [n \in EnvNames |-> <<>>]
Envs == {Unset, [Unset EXCEPT ![<<"V">>] = <<"4", "2">>]}

(***************************************************************************)
(* The process: flag parsing, initConfig, then the command.                *)
(***************************************************************************)
NoCall ==
    [fn |-> "none", arg |-> <<>>, uri |-> NilURL, optPath |-> <<>>, optRaw |-> <<>>,
     prependPath |-> <<>>]
NoRet == [done |-> FALSE]

\* The package variables after init(): optSimulate and optVerbose hold the
\* value the flag had when it was registered, its default.
Init ==
    /\ pc = "start"
    /\ argv \in Argvs
    /\ viper \in Configs
    /\ env \in Envs
    /\ optPath = <<>> /\ optImg = <<>> /\ optRaw = <<>>
    /\ flagSimulate = FALSE /\ flagVerbose = FALSE
    /\ optSimulate = flagSimulate
    /\ optVerbose = flagVerbose
    /\ settings = Settings0
    /\ calls = <<>>
    /\ stderr = ""
    /\ exitCode = -1
    /\ publicID = <<>>
    /\ call = NoCall /\ ret = NoRet

\* cobra parses the command line into the storage of each flag: the package
\* variable for StringVarP, the pointer BoolP returned for the boolean flags.
ParseFlags ==
    /\ pc = "start"
    /\ optPath' = argv.path
    /\ optImg' = argv.image
    /\ optRaw' = argv.raw
    /\ flagSimulate' = argv.simulate
    /\ flagVerbose' = argv.verbose
    /\ pc' = "parsed"
    /\ UNCHANGED <<argv, viper, env, optSimulate, optVerbose, settings, calls, stderr,
                   exitCode, publicID, call, ret>>

Invoke(fn, arg) == [fn |-> fn, arg |-> arg]

\* initConfig() after LoadConfig returned lc. dialErr and dbErr are the
\* outcomes of cloudinary.Dial and service.UseDatabase.
initService(s) ==
    \E dialErr \in BOOLEAN, dbErr \in BOOLEAN :
        /\ calls' = calls \o
              <<Invoke("Dial", URLString(s.CloudinaryURI)),
                Invoke("Verbose", optVerbose),
                Invoke("Simulate", optSimulate),
                Invoke("KeepFiles", s.KeepFilesPattern)>> \o
              (IF ~s.MongoURI.nil THEN <<Invoke("UseDatabase", URLString(s.MongoURI))>>
               ELSE <<>>)
        /\ IF ~s.MongoURI.nil /\ dbErr
           THEN stderr' = "Error connecting to mongoDB" /\ exitCode' = 1 /\ pc' = "exit"
           ELSE IF dialErr
           THEN stderr' = "Error: Dial" /\ exitCode' = 1 /\ pc' = "exit"
           ELSE stderr' = stderr /\ exitCode' = exitCode /\ pc' = "ready"

initLoaded(lc) ==
    /\ settings' = lc.settings
    /\ IF lc.err
       THEN stderr' = lc.msg /\ exitCode' = 1 /\ pc' = "exit" /\ calls' = calls
       ELSE initService(lc.settings)

\* initConfig(), run by cobra before the command.
initConfig ==
    /\ pc = "parsed"
    /\ initLoaded(LoadConfig(viper, env, settings))
    /\ UNCHANGED <<argv, viper, env, optPath, optImg, optRaw, optSimulate, optVerbose,
                   flagSimulate, flagVerbose, publicID, call, ret>>

\* lsCmd.Run. e1, e2 and e3 are the errors of service.Resources (raw, image)
\* and service.ResourceDetails.
lsRun ==
    /\ pc = "ready" /\ argv.cmd = "ls"
    /\ \E e1 \in BOOLEAN, e2 \in BOOLEAN, e3 \in BOOLEAN :
         IF optImg = <<>> /\ optRaw = <<>>
         THEN /\ publicID' = publicID
              /\ IF e1
                 THEN /\ calls' = Append(calls, Invoke("Resources", "raw"))
                      /\ stderr' = "Error: Resources" /\ exitCode' = 1 /\ pc' = "exit"
                 ELSE /\ calls' = calls \o <<Invoke("Resources", "raw"),
                                             Invoke("Resources", "image")>>
                      /\ IF e2
                         THEN stderr' = "Error: Resources" /\ exitCode' = 1 /\ pc' = "exit"
                         ELSE stderr' = stderr /\ exitCode' = 0 /\ pc' = "done"
         ELSE LET id == IF optImg # <<>>
                        THEN composePublicID(optImg, optPath, optRaw, settings.PrependPath)
                        ELSE <<>>
              IN  /\ publicID' = IF optImg # <<>> THEN id ELSE publicID
                  /\ IF optRaw # <<>>
                     THEN /\ calls' = calls
                          /\ stderr' = stderr /\ exitCode' = 0 /\ pc' = "exit"
                     ELSE /\ calls' = Append(calls, Invoke("ResourceDetails", id))
                          /\ IF e3
                             THEN stderr' = "Error: ResourceDetails" /\ exitCode' = 1
                                  /\ pc' = "exit"
                             ELSE stderr' = stderr /\ exitCode' = 0 /\ pc' = "done"
    /\ UNCHANGED <<argv, viper, env, optPath, optImg, optRaw, optSimulate, optVerbose,
                   flagSimulate, flagVerbose, settings, call, ret>>

\* rmCmd.Run. delErr is the error of service.Delete.
rmRun ==
    /\ pc = "ready" /\ argv.cmd = "rm"
    /\ IF optRaw = <<>> /\ optImg = <<>>
       THEN /\ stderr' = "Missing -i or -r option."
            /\ exitCode' = 1
            /\ pc' = "exit"
            /\ UNCHANGED <<calls, publicID>>
       ELSE \E delErr \in BOOLEAN :
              LET prepend == effectivePrepend(optPath, settings.PrependPath)
                  opt == IF optRaw # <<>> THEN optRaw ELSE optImg
                  kind == IF optRaw # <<>> THEN "raw" ELSE "image"
              IN  /\ publicID' = composePublicID(opt, optPath, optRaw, settings.PrependPath)
                  /\ calls' = Append(calls, Invoke("Delete", <<opt, prepend, kind>>))
                  /\ IF delErr
                     THEN stderr' = "Error: Delete" /\ exitCode' = 1 /\ pc' = "exit"
                     ELSE stderr' = stderr /\ exitCode' = 0 /\ pc' = "done"
    /\ UNCHANGED <<argv, viper, env, optPath, optImg, optRaw, optSimulate, optVerbose,
                   flagSimulate, flagVerbose, settings, call, ret>>

Next == ParseFlags \/ initConfig \/ lsRun \/ rmRun

Spec == Init /\ [][Next]_vars

(***************************************************************************)
(* The pure functions applied on their own, to inputs drawn from bounded   *)
(* sets.                                                                   *)
(***************************************************************************)
PlaceholderW == <<"$", "{", "W", "}">>
EncodedW == <<"%", "2", "4", "%", "7", "B", "W", "%", "7", "D">>

\* Directory names, and file names or public ids.
Paths == SeqsUpTo({"o", "/"}, MaxPathLen)
Ids == SeqsUpTo({"p", ".", "/"}, MaxIdLen) \ {<<>>}
\* settings.PrependPath after LoadConfig: empty, or ending with a separator.
Defaults == {<<>>, <<"d", "/">>, <<"e", "/">>}

\* Texts with placeholders: "${v}" is not one, its name is lower case.
EnvPieces == {PlaceholderV, PlaceholderW, <<"x">>, <<"$", "{", "v", "}">>}
Templates == {Concat(ps) : ps \in SeqsUpTo(EnvPieces, MaxPieces)}

\* URIs whose query holds placeholders, percent-encoded or not, a malformed
\* escape and a plus sign.
QueryPieces == {<<"k", "=">>, EncodedV, PlaceholderV, EncodedW, <<"%", "z">>, <<"+">>}
RawURIs ==
    {<<"c", ":", "/", "/", "h">>} \cup
    {<<"c", ":", "/", "/", "h", "?">> \o Concat(ps) : ps \in SeqsUpTo(QueryPieces, MaxQueryPieces)}
URIs == {Parse(raw).url : raw \in {r \in RawURIs : ~Parse(r).err}}

\* Environments: V unset, plain, holding a placeholder, or holding a newline.
FnEnvs ==
    {[Unset EXCEPT ![<<"V">>] = v, ![<<"W">>] = w] :
        v \in {<<>>, <<"s">>, PlaceholderW, <<"s", "\n">>}, w \in {<<>>, <<"w">>}}

\* A call: the function, its string argument (dirname, src or opt), its URI
\* argument, and the package variables composePublicID reads.
FnCall(fn, arg, uri, oPath, oRaw, prependPath) ==
    [fn |-> fn, arg |-> arg, uri |-> uri, optPath |-> oPath, optRaw |-> oRaw,
     prependPath |-> prependPath]

FnCalls ==
    {FnCall("ensureTrailingSlash", d, NilURL, <<>>, <<>>, <<>>) : d \in Paths} \cup
    {FnCall("replaceEnvVars", s, NilURL, <<>>, <<>>, <<>>) : s \in Templates} \cup
    {FnCall("handleQuery", <<>>, u, <<>>, <<>>, <<>>) : u \in URIs} \cup
    UNION {{FnCall("composePublicID", opt, NilURL, oPath, oRaw, d) :
               oRaw \in {<<>>, opt, <<"r">>}} :
           opt \in Ids, oPath \in Paths, d \in Defaults}

FnInit ==
    /\ pc = "fn"
    /\ call \in FnCalls
    /\ env \in IF call.fn \in {"replaceEnvVars", "handleQuery"} THEN FnEnvs ELSE {Unset}
    /\ ret = NoRet
    /\ argv = [cmd |-> "ls", path |-> <<>>, image |-> <<>>, raw |-> <<>>,
               simulate |-> FALSE, verbose |-> FALSE]
    /\ viper = [uri |-> <<>>, prepend |-> <<>>, prodtag |-> <<>>, keepfiles |-> <<>>,
                dburi |-> <<>>]
    /\ optPath = <<>> /\ optImg = <<>> /\ optRaw = <<>>
    /\ flagSimulate = FALSE /\ flagVerbose = FALSE
    /\ optSimulate = FALSE /\ optVerbose = FALSE
    /\ settings = Settings0
    /\ calls = <<>>
    /\ stderr = ""
    /\ exitCode = -1
    /\ publicID = <<>>

Return(v) ==
    /\ ret' = [done |-> TRUE, val |-> v]
    /\ UNCHANGED <<pc, argv, viper, env, optPath, optImg, optRaw, optSimulate, optVerbose,
                   flagSimulate, flagVerbose, settings, calls, stderr, exitCode, publicID,
                   call>>

CallEnsureTrailingSlash ==
    /\ call.fn = "ensureTrailingSlash" /\ ~ret.done
    /\ Return(ensureTrailingSlash(call.arg))

CallReplaceEnvVars ==
    /\ call.fn = "replaceEnvVars" /\ ~ret.done
    /\ Return(replaceEnvVars(call.arg, env))

CallHandleQuery ==
    /\ call.fn = "handleQuery" /\ ~ret.done
    /\ Return(handleQuery(call.uri, env))

CallComposePublicID ==
    /\ call.fn = "composePublicID" /\ ~ret.done
    /\ Return(composePublicID(call.arg, call.optPath, call.optRaw, call.prependPath))

FnNext == CallEnsureTrailingSlash \/ CallReplaceEnvVars \/ CallHandleQuery
              \/ CallComposePublicID

FnSpec == FnInit /\ [][FnNext]_vars

(***************************************************************************)
(* What the properties below speak of.                                     *)
(***************************************************************************)
\* A directory name with a separator at its end.
WithSeparator(p) == IF HasSuffix(p, <<"/">>) THEN p ELSE p \o <<"/">>

\* The prepend path when the override wins: the override, else the default,
\* else nothing.
OverrideWins(override, default) ==
    IF override # <<>> THEN WithSeparator(override)
    ELSE IF default # <<>> THEN WithSeparator(default)
    ELSE <<>>

\* The position of the final dot of the final path segment of s, 0 if none.
LastDot(s) ==
    IF \E i \in 1..Len(s) : s[i] = "." /\ \A j \in i..Len(s) : s[j] # "/"
    THEN CHOOSE i \in 1..Len(s) :
            /\ s[i] = "." /\ \A j \in i..Len(s) : s[j] # "/"
            /\ \A j \in (i + 1)..Len(s) : s[j] # "."
    ELSE 0

\* s without the extension of its final path segment.
Stem(s) == IF LastDot(s) = 0 THEN s ELSE SubSeq(s, 1, LastDot(s) - 1)

\* s with every placeholder replaced by the value of its variable in e, in
\* one pass over s.
RECURSIVE SubstituteEach(_, _, _)
SubstituteEach(s, i, e) ==
    IF i > Len(s) THEN <<>>
    ELSE IF MatchLenAt(s, i) > 0
         THEN Getenv(e, SubSeq(s, i + 2, i + MatchLenAt(s, i) - 2))
                  \o SubstituteEach(s, i + MatchLenAt(s, i), e)
         ELSE <<s[i]>> \o SubstituteEach(s, i + 1, e)

\* The placeholders of s whose variable is unset or empty in e.
Missing(s, e) ==
    {FindAllString(s)[k] : k \in {j \in 1..Len(FindAllString(s)) :
        Getenv(e, SubSeq(FindAllString(s)[j], 3, Len(FindAllString(s)[j]) - 1)) = <<>>}}

InitErrors ==
    {"cloudinary URI", "mongoDB URI", "handleEnvVars", "Error connecting to mongoDB",
     "Error: Dial"}

\* LoadConfig returned no error: cloudinary.Dial was called.
LoadSucceeded == Len(calls) > 0
\* initConfig is over.
Initialized == pc \in {"ready", "done", "exit"}
\* The command's Run function was entered and is over.
CommandRan == pc \in {"done", "exit"} /\ stderr \notin InitErrors
\* The identifier the command composed a public id for.
Composed == IF argv.cmd = "rm" /\ optRaw # <<>> THEN optRaw ELSE optImg
Called(fn) == \E i \in 1..Len(calls) : calls[i].fn = fn
LastCall == calls[Len(calls)]
Returned(fn) == pc = "fn" /\ call.fn = fn /\ ret.done
\* The configuration names a service URI.
ServiceConfigured == viper.uri # <<>>

(***************************************************************************)
(* C1. The prepend path of composePublicID and of rm is the -p override    *)
(* (with a separator at its end) whenever the override is not empty,       *)
(* whatever the configured default; the default when the override is       *)
(* empty; and empty when both are: so the public id composed with a        *)
(* non-empty override is the same for every default.                       *)
(***************************************************************************)
C1_OverrideWins ==
    /\ publicID # <<>> =>
          /\ HasPrefix(publicID, OverrideWins(optPath, settings.PrependPath))
          /\ Len(publicID) <= Len(OverrideWins(optPath, settings.PrependPath)) + Len(Composed)
          /\ optPath # <<>> =>
                \A d \in Defaults :
                    composePublicID(Composed, optPath, optRaw, d) = publicID
    /\ Called("Delete") =>
          LastCall.arg[2] = OverrideWins(optPath, settings.PrependPath)

C1_Witness ==
    /\ Called("Delete")
    /\ optPath = <<"o">> /\ settings.PrependPath = <<"d", "/">>
    /\ optImg = <<"p", ".", "j">> /\ optRaw = <<>>
    /\ publicID = <<"o", "/", "p">>

(***************************************************************************)
(* C2. With only the raw selector the public id is the prepend path        *)
(* followed by the identifier as it is, extension included; with only the  *)
(* image selector it is the prepend path followed by the identifier        *)
(* without the extension of its final path segment, the identifier         *)
(* unmodified when it has none.                                            *)
(***************************************************************************)
C2_RawAndImageRules ==
    Returned("composePublicID") =>
        /\ call.optRaw = call.arg =>
              ret.val = OverrideWins(call.optPath, call.prependPath) \o call.arg
        /\ call.optRaw = <<>> =>
              /\ ret.val = OverrideWins(call.optPath, call.prependPath) \o Stem(call.arg)
              /\ LastDot(call.arg) = 0 =>
                    ret.val = OverrideWins(call.optPath, call.prependPath) \o call.arg

C2_Witness ==
    /\ Returned("composePublicID")
    /\ call.arg = <<"p", ".", "p">> /\ call.optPath = <<>> /\ call.optRaw = <<>>
    /\ call.prependPath = <<"d", "/">>
    /\ ret.val = <<"d", "/", "p">>

(***************************************************************************)
(* C3, as claimed. With both -i and -r (and a service URI configured) the  *)
(* Image branch takes precedence: the public id is composed by the Image   *)
(* rule and rm deletes the image.                                          *)
(***************************************************************************)
C3_ImagePrecedence ==
    (ServiceConfigured /\ CommandRan /\ optImg # <<>> /\ optRaw # <<>>) =>
        /\ publicID = OverrideWins(optPath, settings.PrependPath) \o Stem(optImg)
        /\ argv.cmd = "rm" => (Called("Delete") /\ LastCall.arg[3] = "image")

(***************************************************************************)
(* C3, amended. With both -i and -r the Raw branch takes precedence: rm    *)
(* composes the public id of the raw identifier by the Raw rule and        *)
(* deletes the raw resource; ls composes the public id of the image        *)
(* identifier by the Raw rule (extension kept) and asks for no details.    *)
(***************************************************************************)
C3_RawPrecedence ==
    (CommandRan /\ optImg # <<>> /\ optRaw # <<>>) =>
        /\ argv.cmd = "rm" =>
              /\ publicID = OverrideWins(optPath, settings.PrependPath) \o optRaw
              /\ LastCall = Invoke("Delete",
                     <<optRaw, OverrideWins(optPath, settings.PrependPath), "raw">>)
        /\ argv.cmd = "ls" =>
              /\ publicID = OverrideWins(optPath, settings.PrependPath) \o optImg
              /\ ~Called("ResourceDetails")
              /\ exitCode = 0

C3_Witness ==
    /\ CommandRan /\ argv.cmd = "rm"
    /\ optImg = <<"p", ".", "j">> /\ optRaw = <<"r", ".", "t">>
    /\ publicID = <<"o", "/", "r", ".", "t">>
    /\ LastCall.fn = "Delete" /\ LastCall.arg[3] = "raw"

(***************************************************************************)
(* C4. replaceEnvVars is all-or-nothing: when every placeholder of the     *)
(* input names a variable with a value, the result is the input with every *)
(* placeholder replaced by the value of its variable, and no error; when   *)
(* one names a variable that is unset or empty, the result is an error     *)
(* naming such a placeholder and the empty string.                         *)
(***************************************************************************)
C4_AllOrNothing ==
    Returned("replaceEnvVars") =>
        IF Missing(call.arg, env) = {}
        THEN ~ret.val.err /\ ret.val.val = SubstituteEach(call.arg, 1, env)
        ELSE ret.val.err /\ ret.val.val = <<>> /\ ret.val.name \in Missing(call.arg, env)

(***************************************************************************)
(* C5. ensureTrailingSlash returns the empty path for the empty path and   *)
(* for it alone; any other result ends with exactly one separator, never   *)
(* two; and applying it twice is applying it once.                         *)
(***************************************************************************)
C5_TrailingSlashContract ==
    Returned("ensureTrailingSlash") =>
        /\ ret.val = <<>> <=> call.arg = <<>>
        /\ ret.val # <<>> => (HasSuffix(ret.val, <<"/">>) /\ ~HasSuffix(ret.val, <<"/", "/">>))
        /\ ensureTrailingSlash(ret.val) = ret.val

(***************************************************************************)
(* C6. Tag fallback: when LoadConfig succeeds with cloudinary.prepend      *)
(* empty and global.prodtag not, PrependPath is the tag with its           *)
(* placeholders substituted and then one separator at its end, none added  *)
(* to a tag that ends with one ("${V}/" with V=42 gives "42/"); so after   *)
(* LoadConfig succeeds, PrependPath is empty only if the tag is.           *)
(***************************************************************************)
C6_TagFallback ==
    LoadSucceeded =>
        /\ (viper.prepend = <<>> /\ viper.prodtag # <<>>) =>
              /\ ~replaceEnvVars(viper.prodtag, env).err
              /\ settings.PrependPath = WithSeparator(replaceEnvVars(viper.prodtag, env).val)
              /\ (viper.prodtag = PlaceholderV \o <<"/">> /\ env[<<"V">>] = <<"4", "2">>) =>
                    settings.PrependPath = <<"4", "2", "/">>
        /\ settings.PrependPath = <<>> => viper.prodtag = <<>>

C6_Witness ==
    /\ LoadSucceeded
    /\ viper.prepend = <<>> /\ viper.prodtag = PlaceholderV \o <<"/">>
    /\ env[<<"V">>] = <<"4", "2">>
    /\ settings.PrependPath = <<"4", "2", "/">>

(***************************************************************************)
(* C7. handleQuery decodes, then substitutes, then parses again: a         *)
(* placeholder that is percent-encoded in the query is resolved (query     *)
(* k=%24%7BV%7D with V=s gives the query k=s), and a failure of the        *)
(* decoding, of the substitution or of the second parse gives an error and *)
(* no URI.                                                                 *)
(***************************************************************************)
C7_DecodeSubstituteParse ==
    Returned("handleQuery") =>
        /\ ret.val.err => ret.val.url = NilURL
        /\ ~ValidEscapes(URLString(call.uri)) => ret.val.err
        /\ (ValidEscapes(URLString(call.uri))
              /\ Missing(unescape(URLString(call.uri)), env) # {}) => ret.val.err
        /\ (\E i \in 1..Len(call.uri.RawQuery) : call.uri.RawQuery[i] = "V")
              /\ (\E i \in 1..Len(env[<<"V">>]) : env[<<"V">>][i] \in CTL) => ret.val.err
        /\ call.uri.RawQuery = <<"k", "=">> \o EncodedV =>
              IF env[<<"V">>] = <<>> \/ \E i \in 1..Len(env[<<"V">>]) : env[<<"V">>][i] \in CTL
              THEN ret.val.err
              ELSE ~ret.val.err /\ ret.val.url.RawQuery = <<"k", "=">> \o env[<<"V">>]
                   /\ ret.val.url.Base = call.uri.Base

C7_Witness ==
    /\ Returned("handleQuery")
    /\ call.uri.RawQuery = <<"k", "=">> \o EncodedV
    /\ env[<<"V">>] = <<"s">>
    /\ ~ret.val.err /\ ret.val.url.RawQuery = <<"k", "=", "s">>

(***************************************************************************)
(* C8. rm with neither -i nor -r (and a service URI configured) fails with  *)
(* the usage error and exit code 1 before any remote call: neither         *)
(* service.Delete nor the connection to the tracking database has been     *)
(* made when the usage error is reported.                                  *)
(***************************************************************************)
C8_UsageErrorBeforeRemoteCall ==
    (ServiceConfigured /\ stderr = "Missing -i or -r option.") =>
        /\ exitCode = 1
        /\ ~Called("Delete")
        /\ ~Called("UseDatabase")

(***************************************************************************)
(* C9. cloudinary.uri is mandatory: when it is absent or malformed,        *)
(* LoadConfig fails with a configuration error, and no service client is   *)
(* created.                                                                *)
(***************************************************************************)
C9_ServiceURIMandatory ==
    (Initialized /\ (viper.uri = <<>> \/ Parse(viper.uri).err)) =>
        /\ pc = "exit" /\ exitCode = 1 /\ stderr = "cloudinary URI"
        /\ ~Called("Dial")

(***************************************************************************)
(* C10. In a run with a service URI configured, the value handed to        *)
(* service.Simulate is true whenever --simulate was given and false only   *)
(* when it was not; the same for --verbose and service.Verbose.            *)
(***************************************************************************)
C10_FlagsReachService ==
    ServiceConfigured => \A i \in 1..Len(calls) :
        /\ calls[i].fn = "Simulate" => calls[i].arg = argv.simulate
        /\ calls[i].fn = "Verbose" => calls[i].arg = argv.verbose
====
